---- MODULE Spec2Model ----
(***************************************************************************)
(* Model of src/src/dev-to-git.ts: the DevToGit class (constructor,        *)
(* parseRepository, extractRepository, readConfigFile, publishArticles)    *)
(* and the top-level promise chain that prints the summary and decides     *)
(* the process exit code.                                                  *)
(*                                                                         *)
(* Collaborators whose code is outside src/ are modelled at their          *)
(* boundary: Article.publishArticle (an outcome chosen by the environment: *)
(* one of the update statuses, or a fault), the throttled queue (a single  *)
(* slot limiter with a minimum start-to-start interval) and the report     *)
(* formatter (one line per status).                                        *)
(***************************************************************************)
EXTENDS Integers, Sequences, FiniteSets, TLC

(***************************************************************************)
(* Bounds of the model.                                                    *)
(***************************************************************************)
\* longest URL given to parseRepository on its own, in tokens
MaxUrlTokens == 6
\* longest configuration file (number of article entries)
MaxArticles == 3
\* granularity of the clock, in ms
TickMs == 1500
\* a publish call lasts at most the first multiple of TickMs >= this, in ms
MaxPublishMs == 4000

(***************************************************************************)
(* Program constants.                                                      *)
(***************************************************************************)
ARTICLE_UPLOAD_INTERVAL == 3000

(***************************************************************************)
(* A value that may be absent (null, undefined, not yet set) is a sequence *)
(* of at most one element: Null, or Some(v).                               *)
(***************************************************************************)
Null == << >>
Some(v) == <<v>>
Get(o) == o[1]

(***************************************************************************)
(* Strings are sequences of one-character strings.  A null, undefined or   *)
(* empty URL is the empty sequence: `!repo` treats the three alike.        *)
(***************************************************************************)
NoUrl == << >>

UrlAliceBlogGit == <<"h", "/", "a", "/", "b", ".", "g", "i", "t">>
UrlAliceBlog == <<"h", "/", "a", "/", "b">>
UrlBobGitTrail == <<"h", "/", "b", "/", "a", ".", "g", "i", "t", "/", "t">>

\* values of --repository-url
RepositoryUrls == {NoUrl, UrlAliceBlogGit, UrlAliceBlog}

\* contents of ./package.json: unreadable or not JSON, no "repository"
\* attribute, or a "repository" object with (or without: NoUrl) a "url"
PackageJsons ==
    {[kind |-> "unreadable", url |-> NoUrl], [kind |-> "no_repository", url |-> NoUrl]}
    \cup {[kind |-> "repository", url |-> u] : u \in {NoUrl, UrlBobGitTrail, UrlAliceBlog}}

\* an entry of the configuration file (ArticleConfigFile), with its id
Entry(i) == [id |-> i]

\* the arrays a configuration file holds: ids ascending or descending
EntryLists ==
    UNION {{[i \in 1..n |-> Entry(i)], [i \in 1..n |-> Entry(n + 1 - i)]} : n \in 0..MaxArticles}

\* contents of the configuration file: missing, not JSON, or a JSON array
ConfigFiles ==
    {[kind |-> "missing", entries |-> << >>], [kind |-> "invalid", entries |-> << >>]}
    \cup {[kind |-> "array", entries |-> es] : es \in EntryLists}

(***************************************************************************)
(* UpdateStatus and the per-article outcome.                               *)
(***************************************************************************)
UpdateStatus == {"CREATED", "UPDATED", "ALREADY_UP_TO_DATE", "ERROR", "FAILED_TO_EXTRACT_FRONT_MATTER"}

\* the test of the exit decision on one status
IsFailure_onlyError(article) == article.updateStatus = "ERROR"

IsFailure(article) ==
    \/ article.updateStatus = "ERROR"
    \/ article.updateStatus = "FAILED_TO_EXTRACT_FRONT_MATTER"

\* the status Article.publishArticle produces for one config
Status(articleConf, s) == [article |-> articleConf, updateStatus |-> s]

\* formatArticlePublishedStatuses: one line per status, in order
formatArticlePublishedStatuses(statuses) ==
    [i \in 1..Len(statuses) |->
        <<statuses[i].article.id, statuses[i].updateStatus>>]

(***************************************************************************)
(* repositoryRe and parseRepository.  The pattern is: anything, a slash,   *)
(* a first group, a slash, a second group, then ".git"; it is not         *)
(* anchored, all three quantifiers are greedy, and its dot matches any     *)
(* character except a line terminator.                                     *)
(***************************************************************************)
GitAt(s, k) ==
    /\ k >= 1
    /\ k + 3 <= Len(s)
    /\ s[k] = "." /\ s[k + 1] = "g" /\ s[k + 2] = "i" /\ s[k + 3] = "t"

Slashes(s) == {p \in 1..Len(s) : s[p] = "/"}

GitStarts(s) == {k \in 1..Len(s) : GitAt(s, k)}

\* the characters the pattern's dot does not match (the pattern has no s
\* flag): line feed, carriage return, and the line and paragraph separators
\* U+2028 and U+2029, each written here as a one-character string
LineTerminators == {"\n", "\r", "U+2028", "U+2029"}

Terminators(s) == {p \in 1..Len(s) : s[p] \in LineTerminators}

\* no line terminator strictly between positions i and j of s
OneLine(s, i, j) == \A p \in Terminators(s) : ~(i < p /\ p < j)

\* the ways the pattern can match: first slash, second slash, start of .git,
\* with both groups free of line terminators
Matches(s) ==
    {m \in Slashes(s) \X Slashes(s) \X GitStarts(s) :
        m[1] < m[2] /\ m[2] < m[3] /\ OneLine(s, m[1], m[3])}

Max(S) == CHOOSE x \in S : \A y \in S : y <= x

Min(S) == CHOOSE x \in S : \A y \in S : x <= y

\* the pattern is not anchored and the leftmost start of a match wins: the
\* match is taken on the first line of s that has one
LeftmostMatches(s) ==
    IF Matches(s) = {} THEN {}
    ELSE LET first == Min({m[1] : m \in Matches(s)})
         IN {m \in Matches(s) : OneLine(s, first, m[1])}

\* as repositoryRe, with a lazy leading quantifier: the first slash is the
\* earliest one that allows a match
repositoryRe_lazy(s) ==
    IF Matches(s) = {} THEN Null
    ELSE LET ms == LeftmostMatches(s)
             p1 == Min({m[1] : m \in ms})
             p2 == Max({m[2] : m \in {x \in ms : x[1] = p1}})
             g  == Max({m[3] : m \in {x \in ms : x[1] = p1 /\ x[2] = p2}})
         IN Some(<<SubSeq(s, p1 + 1, p2 - 1), SubSeq(s, p2 + 1, g - 1)>>)

\* greedy quantifiers, left to right: the leading quantifier takes as much
\* of the line as it can, then the first group, then the second
repositoryRe(s) ==
    IF Matches(s) = {} THEN Null
    ELSE LET ms == LeftmostMatches(s)
             p1 == Max({m[1] : m \in ms})
             p2 == Max({m[2] : m \in {x \in ms : x[1] = p1}})
             g  == Max({m[3] : m \in {x \in ms : x[1] = p1 /\ x[2] = p2}})
         IN Some(<<SubSeq(s, p1 + 1, p2 - 1), SubSeq(s, p2 + 1, g - 1)>>)

parseRepository(repo) ==
    IF repo = NoUrl THEN Null
    ELSE LET match == repositoryRe(repo)
         IN IF match = Null THEN Null
            ELSE Some([username |-> Get(match)[1], name |-> Get(match)[2]])

\* extractRepository: the repository of ./package.json, or Null when it throws
extractRepository(manifest) ==
    IF manifest.kind # "repository" THEN Null
    ELSE parseRepository(manifest.url)

VARIABLES
    repositoryUrl,              \* program.repositoryUrl
    devToToken,                 \* program.devToToken: TRUE when one is given
    packageJson,                \* contents of ./package.json
    configFile,                 \* contents of the file at getConfigPath()
    repository,                 \* this.configuration.repository
    pc,                         \* position of the program
    articles,                   \* publishArticles: const articles
    next,                       \* publishArticles: position of the for loop
    articlePublishedStatuses,   \* publishArticles: the accumulator
    queue,                      \* limiter: units submitted and not started
    running,                    \* limiter: units started and not completed
    lastStart,                  \* limiter: time of the last start
    now,                        \* the clock, in ms
    startTimes,                 \* history: time of each publish call's start
    submitted,                  \* history: positions submitted to the limiter
    callLog,                    \* history: publish calls that gave a status
    faulted,                    \* history: positions whose publish call threw
    result,                     \* the list publishArticles resolved with
    res,                        \* the value the first then handler returned
    fault,                      \* why publishArticles rejected
    log,                        \* messages handed to devToGit.logger
    inspected,                  \* entries the forEach callback has run on
    exitCode                    \* process exit code, Null while running

vars == <<repositoryUrl, devToToken, packageJson, configFile, repository, pc,
          articles, next, articlePublishedStatuses, queue, running, lastStart,
          now, startTimes, submitted, callLog, faulted, result, res, fault,
          log, inspected, exitCode>>

inputs == <<repositoryUrl, devToToken, packageJson, configFile>>
limiter == <<queue, running, lastStart>>
history == <<startTimes, submitted, callLog, faulted>>
pipeline == <<articles, next, articlePublishedStatuses>>
chain == <<result, res, inspected>>

\* fault: why the promise of publishArticles rejected
NoFault == "none"

Init ==
    /\ repositoryUrl \in RepositoryUrls
    /\ devToToken \in BOOLEAN
    /\ packageJson \in PackageJsons
    /\ configFile \in ConfigFiles
    /\ repository = Null
    /\ pc = "constructor"
    /\ articles = << >>
    /\ next = 1
    /\ articlePublishedStatuses = << >>
    /\ queue = << >>
    /\ running = {}
    /\ lastStart = Null
    /\ now = 0
    /\ startTimes = << >>
    /\ submitted = << >>
    /\ callLog = << >>
    /\ faulted = {}
    /\ result = Null
    /\ res = Null
    /\ fault = NoFault
    /\ log = << >>
    /\ inspected = 0
    /\ exitCode = Null

\* a message handed to devToGit.logger
Message(kind, text) == [kind |-> kind, text |-> text]

\* process.exit(code), or the end of the process after an uncaught exception
Exit(code) ==
    /\ pc' = "exited"
    /\ exitCode' = Some(code)

(***************************************************************************)
(* new DevToGit(): resolve the repository, require the token, create the   *)
(* queue.                                                                  *)
(***************************************************************************)
\* as Constructor, with the failure of extractRepository logged and not
\* thrown: the run goes on with an empty repository
Constructor_swallow ==
    /\ pc = "constructor"
    /\ LET parsed == parseRepository(repositoryUrl)
           repo == IF parsed # Null THEN parsed ELSE extractRepository(packageJson)
       IN /\ repository' = IF repo = Null
                            THEN Some([username |-> << >>, name |-> << >>])
                            ELSE repo
          /\ log' = IF repo = Null
                     THEN Append(log, Message("repository_required", << >>))
                     ELSE log
          /\ IF ~devToToken
             THEN /\ Exit(1)
             ELSE /\ pc' = "publishArticles"
                  /\ UNCHANGED exitCode
    /\ UNCHANGED <<inputs, pipeline, limiter, now, history, chain, fault>>

\* as Constructor, with ./package.json consulted before --repository-url
Constructor_manifestFirst ==
    /\ pc = "constructor"
    /\ LET extracted == extractRepository(packageJson)
           repo == IF extracted # Null THEN extracted ELSE parseRepository(repositoryUrl)
       IN IF repo = Null
          THEN /\ log' = Append(log, Message("repository_required", << >>))
               /\ Exit(1)
               /\ UNCHANGED repository
          ELSE /\ repository' = repo
               /\ IF ~devToToken
                  THEN /\ log' = Append(log, Message("token_required", << >>))
                       /\ Exit(1)
                  ELSE /\ pc' = "publishArticles"
                       /\ UNCHANGED <<log, exitCode>>
    /\ UNCHANGED <<inputs, pipeline, limiter, now, history, chain, fault>>

\* as Constructor, without the check of the token
Constructor_noTokenCheck ==
    /\ pc = "constructor"
    /\ LET parsed == parseRepository(repositoryUrl)
           repo == IF parsed # Null THEN parsed ELSE extractRepository(packageJson)
       IN IF repo = Null
          THEN /\ log' = Append(log, Message("repository_required", << >>))
               /\ Exit(1)
               /\ UNCHANGED repository
          ELSE /\ repository' = repo
               /\ pc' = "publishArticles"
               /\ UNCHANGED <<log, exitCode>>
    /\ UNCHANGED <<inputs, pipeline, limiter, now, history, chain, fault>>

Constructor ==
    /\ pc = "constructor"
    /\ LET parsed == parseRepository(repositoryUrl)
           repo == IF parsed # Null THEN parsed ELSE extractRepository(packageJson)
       IN IF repo = Null
          THEN \* extractRepository logs and throws: uncaught, the process dies
               /\ log' = Append(log, Message("repository_required", << >>))
               /\ Exit(1)
               /\ UNCHANGED repository
          ELSE /\ repository' = repo
               /\ IF ~devToToken
                  THEN /\ log' = Append(log, Message("token_required", << >>))
                       /\ Exit(1)
                  ELSE /\ pc' = "publishArticles"
                       /\ UNCHANGED <<log, exitCode>>
    /\ UNCHANGED <<inputs, pipeline, limiter, now, history, chain, fault>>

(***************************************************************************)
(* readConfigFile: one ArticleConfig per entry, with the repository.       *)
(***************************************************************************)
\* as readConfigFile, with the entries in reverse order
readConfigFile_reversed(file, repo) ==
    [i \in 1..Len(file.entries) |->
        [f \in DOMAIN file.entries[i] \cup {"repository"} |->
            IF f = "repository" THEN repo
            ELSE file.entries[Len(file.entries) + 1 - i][f]]]

readConfigFile(file, repo) ==
    [i \in 1..Len(file.entries) |->
        [f \in DOMAIN file.entries[i] \cup {"repository"} |->
            IF f = "repository" THEN repo ELSE file.entries[i][f]]]

\* publishArticles up to its loop: readConfigFile throws when the file is
\* missing or is not JSON, and the promise rejects
PublishArticles ==
    /\ pc = "publishArticles"
    /\ IF configFile.kind # "array"
       THEN /\ pc' = "rejected"
            /\ fault' = "config"
            /\ UNCHANGED articles
       ELSE /\ articles' = readConfigFile(configFile, Get(repository))
            /\ pc' = "loop"
            /\ UNCHANGED fault
    /\ UNCHANGED <<inputs, repository, next, articlePublishedStatuses, limiter,
                   now, history, chain, log, exitCode>>

(***************************************************************************)
(* The for loop of publishArticles and the throttled queue.                *)
(***************************************************************************)
\* as Eligible, with the interval also counted before the first unit
Eligible_delayFirst ==
    IF lastStart = Null THEN now >= ARTICLE_UPLOAD_INTERVAL
    ELSE now >= Get(lastStart) + ARTICLE_UPLOAD_INTERVAL

\* the limiter may start a unit: nothing has run yet, or the interval has
\* passed since the last start
Eligible ==
    IF lastStart = Null THEN TRUE
    ELSE now >= Get(lastStart) + ARTICLE_UPLOAD_INTERVAL

\* as Submit, with the unit awaited and never handed to the queue
Submit_notQueued ==
    /\ pc = "loop"
    /\ next <= Len(articles)
    /\ submitted' = Append(submitted, next)
    /\ pc' = "awaiting"
    /\ UNCHANGED <<inputs, repository, pipeline, limiter, now, startTimes,
                   callLog, faulted, chain, fault, log, exitCode>>

\* as Submit, with the unit handed to the queue and not awaited
Submit_noAwait ==
    /\ pc = "loop"
    /\ next <= Len(articles)
    /\ queue' = Append(queue, next)
    /\ submitted' = Append(submitted, next)
    /\ next' = next + 1
    /\ pc' = IF next = Len(articles) THEN "awaiting" ELSE "loop"
    /\ UNCHANGED <<inputs, repository, articles, articlePublishedStatuses,
                   running, lastStart, now, startTimes, callLog, faulted, chain,
                   fault, log, exitCode>>

\* as Submit, with the publish calls started at once and awaited together
\* (Promise.all), not handed to the queue one by one
Submit_promiseAll ==
    /\ pc = "loop"
    /\ next <= Len(articles)
    /\ running' = running \cup {next}
    /\ submitted' = Append(submitted, next)
    /\ startTimes' = Append(startTimes, now)
    /\ lastStart' = Some(now)
    /\ next' = next + 1
    /\ pc' = IF next = Len(articles) THEN "awaiting" ELSE "loop"
    /\ UNCHANGED <<inputs, repository, articles, articlePublishedStatuses, queue,
                   now, callLog, faulted, chain, fault, log, exitCode>>

\* loop head: hand the next config's unit to this.queue and await it
Submit ==
    /\ pc = "loop"
    /\ next <= Len(articles)
    /\ queue' = Append(queue, next)
    /\ submitted' = Append(submitted, next)
    /\ pc' = "awaiting"
    /\ UNCHANGED <<inputs, repository, pipeline, running, lastStart, now,
                   startTimes, callLog, faulted, chain, fault, log, exitCode>>

\* as LimiterStart, with a pending unit started as soon as the one before
\* it has completed, whatever the time since the last start
LimiterStart_noInterval ==
    /\ queue # << >>
    /\ running = {}
    /\ running' = {Head(queue)}
    /\ queue' = Tail(queue)
    /\ lastStart' = Some(now)
    /\ startTimes' = Append(startTimes, now)
    /\ UNCHANGED <<inputs, repository, pc, pipeline, now, submitted, callLog,
                   faulted, chain, fault, log, exitCode>>

\* the limiter starts the oldest pending unit: article.publishArticle() is
\* called
LimiterStart ==
    /\ queue # << >>
    /\ running = {}
    /\ Eligible
    /\ running' = {Head(queue)}
    /\ queue' = Tail(queue)
    /\ lastStart' = Some(now)
    /\ startTimes' = Append(startTimes, now)
    /\ UNCHANGED <<inputs, repository, pc, pipeline, now, submitted, callLog,
                   faulted, chain, fault, log, exitCode>>

\* the record of a publish call that gave a status
Call(u, status) == [index |-> u, status |-> status]

\* as PublishComplete, with a config whose status is failing published again
PublishComplete_retry(s) ==
    /\ pc = "awaiting"
    /\ \E u \in running :
        /\ articlePublishedStatuses' =
               Append(articlePublishedStatuses, Status(articles[u], s))
        /\ callLog' = Append(callLog, Call(u, Status(articles[u], s)))
        /\ running' = running \ {u}
    /\ next' = IF IsFailure([updateStatus |-> s]) THEN next ELSE next + 1
    /\ pc' = "loop"
    /\ UNCHANGED <<inputs, repository, articles, queue, lastStart, now,
                   startTimes, submitted, faulted, chain, fault, log, exitCode>>

\* as PublishComplete, with the status put at the front of the accumulator
PublishComplete_unshift(s) ==
    /\ pc = "awaiting"
    /\ \E u \in running :
        /\ articlePublishedStatuses' =
               <<Status(articles[u], s)>> \o articlePublishedStatuses
        /\ callLog' = Append(callLog, Call(u, Status(articles[u], s)))
        /\ running' = running \ {u}
    /\ next' = next + 1
    /\ pc' = "loop"
    /\ UNCHANGED <<inputs, repository, articles, queue, lastStart, now,
                   startTimes, submitted, faulted, chain, fault, log, exitCode>>

\* as PublishComplete, with the loop left at the first failing status
PublishComplete_break(s) ==
    /\ pc = "awaiting"
    /\ \E u \in running :
        /\ articlePublishedStatuses' =
               Append(articlePublishedStatuses, Status(articles[u], s))
        /\ callLog' = Append(callLog, Call(u, Status(articles[u], s)))
        /\ running' = running \ {u}
    /\ next' = IF IsFailure([updateStatus |-> s]) THEN Len(articles) + 1 ELSE next + 1
    /\ pc' = "loop"
    /\ UNCHANGED <<inputs, repository, articles, queue, lastStart, now,
                   startTimes, submitted, faulted, chain, fault, log, exitCode>>

\* article.publishArticle() resolves with a status: it is pushed, the unit
\* completes and the loop goes on
PublishComplete(s) ==
    /\ pc = "awaiting"
    /\ \E u \in running :
        /\ articlePublishedStatuses' =
               Append(articlePublishedStatuses, Status(articles[u], s))
        /\ callLog' = Append(callLog, Call(u, Status(articles[u], s)))
        /\ running' = running \ {u}
    /\ next' = next + 1
    /\ pc' = "loop"
    /\ UNCHANGED <<inputs, repository, articles, queue, lastStart, now,
                   startTimes, submitted, faulted, chain, fault, log, exitCode>>

\* as PublishFault, with the fault caught inside the loop, which goes on
PublishFault_swallow ==
    /\ pc = "awaiting"
    /\ \E u \in running :
        /\ running' = running \ {u}
        /\ faulted' = faulted \cup {u}
    /\ next' = next + 1
    /\ pc' = "loop"
    /\ UNCHANGED <<inputs, repository, articles, articlePublishedStatuses, queue,
                   lastStart, now, startTimes, submitted, callLog, chain, fault,
                   log, exitCode>>

\* as PublishFault, with the fault caught and the statuses collected so far
\* returned
PublishFault_partial ==
    /\ pc = "awaiting"
    /\ \E u \in running :
        /\ running' = running \ {u}
        /\ faulted' = faulted \cup {u}
    /\ result' = Some(articlePublishedStatuses)
    /\ pc' = "fulfilled"
    /\ UNCHANGED <<inputs, repository, pipeline, queue, lastStart, now,
                   startTimes, submitted, callLog, res, inspected, fault, log,
                   exitCode>>

\* article.publishArticle() rejects: the unit rejects, the await throws and
\* the promise of publishArticles rejects
PublishFault ==
    /\ pc = "awaiting"
    /\ \E u \in running :
        /\ running' = running \ {u}
        /\ faulted' = faulted \cup {u}
    /\ pc' = "rejected"
    /\ fault' = "publish"
    /\ UNCHANGED <<inputs, repository, pipeline, queue, lastStart, now,
                   startTimes, submitted, callLog, chain, log, exitCode>>

\* the loop is over: publishArticles resolves with the accumulator
Return ==
    /\ pc = "loop"
    /\ next > Len(articles)
    /\ result' = Some(articlePublishedStatuses)
    /\ pc' = "fulfilled"
    /\ UNCHANGED <<inputs, repository, pipeline, limiter, now, history, res,
                   inspected, fault, log, exitCode>>

\* time passes while a publish call is in progress or a unit waits for the
\* interval to elapse
Tick ==
    /\ IF running # {}
       THEN now - Get(lastStart) < MaxPublishMs
       ELSE queue # << >> /\ ~Eligible
    /\ now' = now + TickMs
    /\ UNCHANGED <<inputs, repository, pc, pipeline, limiter, history, chain,
                   fault, log, exitCode>>

(***************************************************************************)
(* The top-level promise chain.                                            *)
(***************************************************************************)
\* first then handler: the statuses and their formatted text
ThenFormat ==
    /\ pc = "fulfilled"
    /\ res' = Some([articles |-> Get(result),
                    text |-> formatArticlePublishedStatuses(Get(result))])
    /\ pc' = "then"
    /\ UNCHANGED <<inputs, repository, pipeline, limiter, now, history, result,
                   inspected, fault, log, exitCode>>

\* as ThenLog, with nothing logged before the exit decision
ThenLog_skip ==
    /\ pc = "then"
    /\ pc' = "forEach"
    /\ UNCHANGED <<inputs, repository, pipeline, limiter, now, history, chain,
                   fault, log, exitCode>>

\* second then handler, first statement: log the summary
ThenLog ==
    /\ pc = "then"
    /\ log' = Append(log, Message("summary", Get(res).text))
    /\ pc' = "forEach"
    /\ UNCHANGED <<inputs, repository, pipeline, limiter, now, history, chain,
                   fault, exitCode>>

\* as ForEachStep, with the failure noted (process.exitCode = 1) and the
\* iteration going on
ForEachStep_noExit ==
    /\ pc = "forEach"
    /\ inspected < Len(Get(res).articles)
    /\ inspected' = inspected + 1
    /\ IF IsFailure(Get(res).articles[inspected + 1])
       THEN exitCode' = Some(1)
       ELSE UNCHANGED exitCode
    /\ UNCHANGED <<inputs, repository, pc, pipeline, limiter, now, history,
                   result, res, fault, log>>

\* second then handler, one call of the forEach callback: process.exit(1)
\* on a failing status ends the process there
ForEachStep ==
    /\ pc = "forEach"
    /\ inspected < Len(Get(res).articles)
    /\ inspected' = inspected + 1
    /\ IF IsFailure(Get(res).articles[inspected + 1])
       THEN Exit(1)
       ELSE UNCHANGED <<pc, exitCode>>
    /\ UNCHANGED <<inputs, repository, pipeline, limiter, now, history, result,
                   res, fault, log>>

\* the forEach is over and nothing is left to run: the process ends
ForEachEnd ==
    /\ pc = "forEach"
    /\ inspected = Len(Get(res).articles)
    /\ Exit(0)
    /\ UNCHANGED <<inputs, repository, pipeline, limiter, now, history, chain,
                   fault, log>>

\* catch handler: generic message, console.error, process.exit(1)
Catch ==
    /\ pc = "rejected"
    /\ log' = Append(log, Message("publish_error", << >>))
    /\ Exit(1)
    /\ UNCHANGED <<inputs, repository, pipeline, limiter, now, history, chain,
                   fault>>

Next ==
    \/ Constructor
    \/ PublishArticles
    \/ Submit
    \/ LimiterStart
    \/ \E s \in UpdateStatus : PublishComplete(s)
    \/ PublishFault
    \/ Return
    \/ Tick
    \/ ThenFormat
    \/ ThenLog
    \/ ForEachStep
    \/ ForEachEnd
    \/ Catch

Spec == Init /\ [][Next]_vars

(***************************************************************************)
(* The program under its scheduling: a step of the program that can be     *)
(* taken is taken, the limiter starts a unit that may start, the clock     *)
(* advances, and a publish call in progress completes, with a status or a  *)
(* fault.                                                                  *)
(***************************************************************************)
ProgramStep ==
    \/ Constructor
    \/ PublishArticles
    \/ Submit
    \/ Return
    \/ ThenFormat
    \/ ThenLog
    \/ ForEachStep
    \/ ForEachEnd
    \/ Catch

PublishEnds == (\E s \in UpdateStatus : PublishComplete(s)) \/ PublishFault

\* the inputs of Init with one source of the repository: the explicit URL,
\* given or not, and no manifest
LiveInit ==
    /\ Init
    /\ repositoryUrl \in {NoUrl, UrlAliceBlogGit}
    /\ packageJson = [kind |-> "unreadable", url |-> NoUrl]

LiveSpec ==
    /\ LiveInit
    /\ [][Next]_vars
    /\ WF_vars(ProgramStep)
    /\ WF_vars(LimiterStart)
    /\ WF_vars(Tick)
    /\ WF_vars(PublishEnds)

(***************************************************************************)
(* parseRepository on its own, applied to every URL made of at most        *)
(* MaxUrlTokens tokens.                                                    *)
(***************************************************************************)
UrlTokens ==
    {<<"a">>, <<"b">>, <<"/">>, <<".">>, <<"\n">>, <<".", "g", "i", "t">>}

SeqsUpTo(S, n) == UNION {[1..k -> S] : k \in 0..n}

RECURSIVE Flatten(_)
Flatten(ts) == IF ts = << >> THEN << >> ELSE Head(ts) \o Flatten(Tail(ts))

ParseUrls == {Flatten(ts) : ts \in SeqsUpTo(UrlTokens, MaxUrlTokens)}

ParseInit ==
    /\ repositoryUrl \in ParseUrls
    /\ devToToken = TRUE
    /\ packageJson = [kind |-> "unreadable", url |-> NoUrl]
    /\ configFile = [kind |-> "missing", entries |-> << >>]
    /\ repository = Null
    /\ pc = "parseRepository"
    /\ articles = << >>
    /\ next = 1
    /\ articlePublishedStatuses = << >>
    /\ queue = << >>
    /\ running = {}
    /\ lastStart = Null
    /\ now = 0
    /\ startTimes = << >>
    /\ submitted = << >>
    /\ callLog = << >>
    /\ faulted = {}
    /\ result = Null
    /\ res = Null
    /\ fault = NoFault
    /\ log = << >>
    /\ inspected = 0
    /\ exitCode = Null

\* this.parseRepository(program.repositoryUrl)
ParseRepository ==
    /\ pc = "parseRepository"
    /\ repository' = parseRepository(repositoryUrl)
    /\ pc' = "parsed"
    /\ UNCHANGED <<inputs, pipeline, limiter, now, history, chain, fault, log,
                   exitCode>>

ParseSpec == ParseInit /\ [][ParseRepository]_vars

TypeOK ==
    /\ pc \in {"constructor", "publishArticles", "loop", "awaiting", "fulfilled",
               "then", "forEach", "rejected", "exited"}
    /\ next \in 1..(MaxArticles + 1)
    /\ running \subseteq 1..MaxArticles
    /\ exitCode \in {Null, Some(0), Some(1)}
    /\ fault \in {NoFault, "config", "publish"}

(***************************************************************************)
(* Properties.                                                             *)
(***************************************************************************)
\* the status kinds that mark a run as failed
FailingKinds == {"ERROR", "FAILED_TO_EXTRACT_FRONT_MATTER"}

Failing(statuses) == {i \in 1..Len(statuses) : statuses[i].updateStatus \in FailingKinds}

\* the log holds the summary of these publish calls, one line per call
SummaryOf(calls) ==
    \E m \in 1..Len(log) :
        /\ log[m].kind = "summary"
        /\ Len(log[m].text) = Len(calls)
        /\ \A k \in 1..Len(calls) :
               log[m].text[k] = <<calls[k].status.article.id, calls[k].status.updateStatus>>

Logged(kind) == \E m \in 1..Len(log) : log[m].kind = kind

\* C1: when no publish call raises a fault, publishArticles returns a list
\* as long as the input list whose i-th entry is the status that the
\* publish call of the i-th config produced
C1_OrderPreserved ==
    result # Null =>
        /\ Len(Get(result)) = Len(configFile.entries)
        /\ \A i \in 1..Len(configFile.entries) :
               /\ Get(result)[i].article.id = configFile.entries[i].id
               /\ \E k \in 1..Len(callLog) :
                      /\ callLog[k].index = i
                      /\ callLog[k].status = Get(result)[i]

C1_Witness ==
    /\ result # Null
    /\ Len(Get(result)) >= 3
    /\ Get(result)[1].updateStatus # Get(result)[2].updateStatus
    /\ Get(result)[1].article.id > Get(result)[2].article.id

\* C2: the starts of two consecutive publish calls of a run are at least
\* 3000 ms apart, whether the first call lasted less or more than that
C2_Spacing ==
    \A i \in 1..(Len(startTimes) - 1) : startTimes[i + 1] - startTimes[i] >= 3000

\* three calls: one pair held apart by the limiter, one by a long call
C2_Witness ==
    /\ Len(startTimes) >= 3
    /\ startTimes[2] - startTimes[1] < startTimes[3] - startTimes[2]

\* C3: a publish call that returns a failing status does not stop the
\* pipeline: short of a fault, the run ends only once every config has been
\* attempted and its status recorded, and it ends with exit code 1
C3_ErrorStatusDoesNotStop ==
    (Failing(articlePublishedStatuses) # {} /\ faulted = {}) =>
        /\ pc \in {"fulfilled", "then", "forEach", "exited"} =>
               /\ Len(callLog) = Len(configFile.entries)
               /\ \A i \in 1..Len(configFile.entries) :
                      /\ callLog[i].index = i
                      /\ Get(result)[i] = callLog[i].status
        /\ pc = "exited" => exitCode = Some(1)

C3_Witness ==
    /\ pc = "exited"
    /\ faulted = {}
    /\ Len(callLog) >= 2
    /\ callLog[1].status.updateStatus = "ERROR"
    /\ callLog[2].status.updateStatus = "CREATED"
    /\ exitCode = Some(1)

\* C4: a run that completes without a fault exits with code 1 exactly when
\* some returned status is of kind error or malformed front matter, and
\* with code 0 otherwise; an empty list gives 0
C4_ExitCode ==
    (pc = "exited" /\ result # Null) =>
        /\ exitCode = Some(1) <=> Failing(Get(result)) # {}
        /\ exitCode = Some(0) <=> Failing(Get(result)) = {}
        /\ Get(result) = << >> => exitCode = Some(0)

C4_Witness ==
    /\ pc = "exited"
    /\ result # Null
    /\ Len(Get(result)) >= 3
    /\ Failing(Get(result)) = {2}
    /\ Get(result)[2].updateStatus = "FAILED_TO_EXTRACT_FRONT_MATTER"
    /\ exitCode = Some(1)

\* C5: once the publish call of config k raises a fault the pipeline has
\* failed, and no config after k is ever submitted to the limiter or
\* published
C5_FaultFailFast ==
    \A k \in faulted :
        /\ pc \in {"rejected", "exited"}
        /\ result = Null
        /\ queue = << >> /\ running = {}
        /\ \A j \in 1..Len(submitted) : submitted[j] <= k
        /\ Len(startTimes) = k

C5_Witness ==
    /\ pc = "exited"
    /\ faulted = {2}
    /\ Len(configFile.entries) >= 3

\* C6: when a publish call raises a fault the caller gets no status list,
\* not even the statuses collected before it, the summary is never printed,
\* and the run ends with the generic error logged and exit code 1
C6_NoResultOnFault ==
    faulted # {} =>
        /\ result = Null
        /\ res = Null
        /\ ~Logged("summary")
        /\ pc = "exited" => Logged("publish_error") /\ exitCode = Some(1)

C6_Witness ==
    /\ pc = "exited"
    /\ faulted # {}
    /\ Len(articlePublishedStatuses) >= 2

\* the repository cannot be resolved, the token is missing, or the
\* configuration file is missing or is not JSON
\* the URLs of the model that do not have two path segments before ".git"
UrlsWithoutRepository == {NoUrl, UrlAliceBlog}

ConfigurationError ==
    \/ ~devToToken
    \/ configFile.kind # "array"
    \/ /\ repositoryUrl \in UrlsWithoutRepository
       /\ packageJson.kind # "repository" \/ packageJson.url \in UrlsWithoutRepository

\* C7: with an unresolvable repository, a missing token or a missing or
\* invalid configuration file, no publish call is ever made, and the
\* process ends with exit code 1
C7_ConfigurationErrorIsFatal ==
    ConfigurationError =>
        /\ submitted = << >>
        /\ startTimes = << >>
        /\ running = {}
        /\ pc \notin {"loop", "awaiting", "fulfilled", "then", "forEach"}
        /\ pc = "exited" => exitCode = Some(1)

C7_Witness ==
    /\ pc = "exited"
    /\ ~devToToken
    /\ repository # Null
    /\ configFile.kind = "array"
    /\ Len(configFile.entries) >= 1

\* C8: at most one publish call is in flight at any instant
C8_OneInFlight == Cardinality(running) <= 1

C8_Witness ==
    /\ Cardinality(running) = 1
    /\ Len(callLog) >= 1
    /\ next < Len(articles)

\* C9, as stated: the exit decision inspects every entry of the status
\* list, also after the first failing one
C9_InspectsEveryEntry ==
    (pc = "exited" /\ res # Null) => inspected = Len(Get(res).articles)

\* C9, amended: the exit decision inspects the entries in order up to and
\* including the first failing one, where the process exits, and no entry
\* after it; it inspects every entry exactly when no entry before the last
\* one is failing
C9_StopsAtFirstFailure ==
    res # Null =>
        /\ \A i \in 1..(inspected - 1) : i \notin Failing(Get(res).articles)
        /\ pc = "exited" =>
               /\ inspected = IF Failing(Get(res).articles) = {}
                              THEN Len(Get(res).articles)
                              ELSE Min(Failing(Get(res).articles))
               /\ inspected = Len(Get(res).articles)
                      <=> \A i \in 1..(Len(Get(res).articles) - 1) :
                              i \notin Failing(Get(res).articles)

C9_Witness ==
    /\ pc = "exited"
    /\ res # Null
    /\ inspected = 2
    /\ Len(Get(res).articles) >= 3
    /\ 3 \in Failing(Get(res).articles)

\* C10: on a run whose pipeline completes without a fault, the summary of
\* every attempted article is printed before the exit decision looks at a
\* status and before the process exits
C10_SummaryBeforeExit ==
    (result # Null /\ (inspected > 0 \/ pc = "exited")) =>
        /\ SummaryOf(callLog)
        /\ Len(callLog) = Len(startTimes)

C10_Witness ==
    /\ pc = "exited"
    /\ result # Null
    /\ exitCode = Some(1)
    /\ Len(callLog) >= 2
    /\ SummaryOf(callLog)

\* the positions whose config has been handed to Article.publishArticle:
\* the calls that gave a status, those that threw and those in progress
Handed(i) ==
    Cardinality({k \in 1..Len(callLog) : callLog[k].index = i})
    + (IF i \in faulted THEN 1 ELSE 0)
    + (IF i \in running THEN 1 ELSE 0)

\* C11: each config is handed to the publisher at most once in any run, and
\* exactly once in a run that completes without a fault: none is retried,
\* skipped or published twice
C11_PublishedOnce ==
    /\ \A i \in 1..Len(configFile.entries) : Handed(i) <= 1
    /\ Len(startTimes) = Cardinality({i \in 1..Len(configFile.entries) : Handed(i) = 1})
    /\ result # Null => \A i \in 1..Len(configFile.entries) : Handed(i) = 1

C11_Witness ==
    /\ pc = "exited"
    /\ result # Null
    /\ Len(configFile.entries) >= 3
    /\ Failing(Get(result)) = {1, 3}

\* the configuration loader has been invoked: publishArticles has got past
\* its call of readConfigFile, or has been rejected by it
LoaderInvoked ==
    \/ pc \in {"loop", "awaiting", "fulfilled", "then", "forEach", "rejected"}
    \/ fault # NoFault
    \/ result # Null

\* the manifest declares no URL with two path segments before ".git"
ManifestWithoutRepository ==
    packageJson.kind # "repository" \/ packageJson.url \in UrlsWithoutRepository

\* C12: with no explicit repository URL and a manifest without a valid
\* repository URL, the resolver fails before the configuration file is
\* read: the loader is never invoked in that run
C12_ResolverFailsBeforeLoading ==
    (repositoryUrl = NoUrl /\ ManifestWithoutRepository) =>
        /\ ~LoaderInvoked
        /\ articles = << >>
        /\ pc \in {"constructor", "exited"}
        /\ pc = "exited" => Logged("repository_required") /\ repository = Null

C12_Witness ==
    /\ repositoryUrl = NoUrl
    /\ packageJson.kind = "repository"
    /\ packageJson.url = UrlAliceBlog
    /\ devToToken
    /\ configFile.kind = "array"
    /\ Len(configFile.entries) >= 1
    /\ pc = "exited"

\* C15: at every moment the accumulator holds exactly the statuses of the
\* configs whose publish call has completed, in input order, and config
\* i + 1 is submitted only once the status of config i has been appended
C15_AccumulatorInOrder ==
    /\ Len(articlePublishedStatuses) = Len(callLog)
    /\ \A k \in 1..Len(callLog) :
           /\ callLog[k].index = k
           /\ articlePublishedStatuses[k] = callLog[k].status
           /\ articlePublishedStatuses[k].article.id = configFile.entries[k].id
    /\ \A j \in 1..Len(submitted) :
           /\ submitted[j] = j
           /\ j <= Len(articlePublishedStatuses) + 1

C15_Witness ==
    /\ pc = "awaiting"
    /\ Len(submitted) = 3
    /\ Len(articlePublishedStatuses) = 2
    /\ articlePublishedStatuses[1].article.id = 3

\* the repositories of the URLs of the model
RepositoryAliceBlog == [username |-> <<"a">>, name |-> <<"b">>]
RepositoryBobGit == [username |-> <<"b">>, name |-> <<"a">>]

\* C17: once the constructor has run, the repository is that of the explicit
\* URL whenever that URL is given and matches; it is that of the manifest
\* exactly when the explicit URL is absent or does not match and the
\* manifest's does; and resolution fails exactly when neither matches
C17_ResolverOrder ==
    pc # "constructor" =>
        /\ repositoryUrl \notin UrlsWithoutRepository =>
               repository = Some(RepositoryAliceBlog)
        /\ (repositoryUrl \in UrlsWithoutRepository /\ ~ManifestWithoutRepository) =>
               repository = Some(RepositoryBobGit)
        /\ (repositoryUrl \in UrlsWithoutRepository /\ ManifestWithoutRepository) =>
               /\ repository = Null
               /\ pc = "exited"
               /\ exitCode = Some(1)
        /\ Logged("repository_required") <=>
               (repositoryUrl \in UrlsWithoutRepository /\ ManifestWithoutRepository)

C17_Witness ==
    /\ pc # "constructor"
    /\ repositoryUrl = UrlAliceBlogGit
    /\ packageJson.kind = "repository"
    /\ packageJson.url = UrlBobGitTrail
    /\ repository = Some(RepositoryAliceBlog)

\* C18: readConfigFile returns one ArticleConfig per entry of the file, in
\* file order, each carrying the resolved repository, the same for all
C18_ConfigsInFileOrder ==
    pc \in {"loop", "awaiting", "fulfilled", "then", "forEach"} =>
        /\ Len(articles) = Len(configFile.entries)
        /\ \A i \in 1..Len(articles) :
               /\ DOMAIN articles[i] = DOMAIN configFile.entries[i] \cup {"repository"}
               /\ articles[i].id = configFile.entries[i].id
               /\ articles[i].repository = Get(repository)
        /\ \A i, j \in 1..Len(articles) : articles[i].repository = articles[j].repository

C18_Witness ==
    /\ pc = "loop"
    /\ Len(articles) = 3
    /\ articles[1].id = 3
    /\ articles[3].id = 1
    /\ articles[2].repository = RepositoryBobGit

\* C13: when every publish call completes, the run terminates: the
\* process exits, after the result list was returned or with code 1 after a
\* fault was reported
C13_Terminates ==
    <>(/\ pc = "exited"
       /\ exitCode # Null
       /\ (fault # NoFault => exitCode = Some(1) /\ Logged("publish_error")))

C13_Witness ==
    /\ pc = "exited"
    /\ Len(callLog) = 2
    /\ faulted = {3}
    /\ exitCode = Some(1)

\* C16: the first unit submitted in a run starts at the moment it is
\* submitted: the limiter may start it at once and no time passes before
C16_FirstStartsAtOnce ==
    (queue # << >> /\ startTimes = << >>) =>
        /\ ENABLED LimiterStart
        /\ ~ENABLED Tick

C16_Witness ==
    /\ Len(submitted) = 1
    /\ Len(startTimes) = 1
    /\ running = {1}
    /\ startTimes[1] = now

DotGit == <<".", "g", "i", "t">>

EndsWithDotGit(s) == Len(s) >= 4 /\ SubSeq(s, Len(s) - 3, Len(s)) = DotGit

SlashFree(s) == \A p \in 1..Len(s) : s[p] # "/"

\* t occurs in s as a run of consecutive characters
Occurs(t, s) == \E p \in 1..(Len(s) - Len(t) + 1) : SubSeq(s, p, p + Len(t) - 1) = t

\* s has two slashes and, further on, ".git"
TwoSegmentsThenDotGit(s) ==
    \E i \in 1..Len(s) :
        /\ s[i] = "/"
        /\ \E j \in (i + 1)..Len(s) :
               /\ s[j] = "/"
               /\ \E k \in (j + 1)..(Len(s) - 3) : SubSeq(s, k, k + 3) = DotGit

\* s has no line terminator
TerminatorFree(s) == \A p \in 1..Len(s) : s[p] \notin {"\n", "\r", "U+2028", "U+2029"}

\* C14 as stated: on every URL that ends in /username/name.git, whatever the
\* characters of the two segments other than a slash, parseRepository returns
\* the two segments before ".git"; and on a URL without ".git" after two
\* path segments it returns no match
C14_AnyCharacterButSlash ==
    pc = "parsed" =>
        LET s == repositoryUrl
            slashes == {p \in 1..Len(s) : s[p] = "/"}
        IN /\ (EndsWithDotGit(s) /\ Cardinality(slashes) >= 2) =>
                  LET b == Max(slashes)
                      a == Max(slashes \ {b})
                  IN repository = Some([username |-> SubSeq(s, a + 1, b - 1),
                                        name |-> SubSeq(s, b + 1, Len(s) - 4)])
           /\ ~TwoSegmentsThenDotGit(s) => repository = Null

\* C14: on a URL without a line terminator that ends in /username/name.git,
\* parseRepository returns the two segments before ".git"; on any URL,
\* whatever it returns is two segments without a slash and without a line
\* terminator that stand right before a ".git" of the URL; a URL that ends
\* in /username/name.git with a line terminator in one of the two segments
\* gives those two segments never; and on a URL without ".git" after two
\* path segments it returns no match
C14_ParseRepository ==
    pc = "parsed" =>
        LET s == repositoryUrl
            slashes == {p \in 1..Len(s) : s[p] = "/"}
        IN /\ (EndsWithDotGit(s) /\ Cardinality(slashes) >= 2) =>
                  LET b == Max(slashes)
                      a == Max(slashes \ {b})
                      last2 == Some([username |-> SubSeq(s, a + 1, b - 1),
                                     name |-> SubSeq(s, b + 1, Len(s) - 4)])
                  IN /\ TerminatorFree(s) => repository = last2
                     /\ ~TerminatorFree(SubSeq(s, a, Len(s))) => repository # last2
           /\ repository # Null =>
                  /\ SlashFree(Get(repository).username)
                  /\ SlashFree(Get(repository).name)
                  /\ TerminatorFree(Get(repository).username)
                  /\ TerminatorFree(Get(repository).name)
                  /\ Occurs(<<"/">> \o Get(repository).username \o <<"/">>
                                \o Get(repository).name \o DotGit, s)
           /\ ~TwoSegmentsThenDotGit(s) => repository = Null

C14_Witness ==
    /\ pc = "parsed"
    /\ EndsWithDotGit(repositoryUrl)
    /\ TerminatorFree(repositoryUrl)
    /\ Cardinality(Slashes(repositoryUrl)) >= 3
    /\ repository = Some([username |-> <<"a">>, name |-> <<"b">>])

====
